---- MODULE Spec2Model ----
(***************************************************************************)
(* Selection-state engine of the Muuto made-to-order master data tool      *)
(* (muuto-m2o-app.py): the session state, the widget callbacks and the     *)
(* script pass that follows every interaction.                             *)
(*                                                                         *)
(* Strings are sequences of one-character strings, so that the key         *)
(* normalisation, the de-duplication key and the sort order are computed   *)
(* character by character as the Python code computes them.                *)
(***************************************************************************)
EXTENDS Integers, Sequences, FiniteSets, TLC

\* ------------------------------------------------------------------------
\* Bounds
\* ------------------------------------------------------------------------
\* largest number of entries of matrix_selected_generic_items explored
MaxSel == 2

\* ------------------------------------------------------------------------
\* Values
\* ------------------------------------------------------------------------
\* a missing cell of the raw data (NaN / None / pd.NA)
NA == <<"<NA>">>
\* selected_currency_session when no currency is selected
None == <<"<None>">>

DEFAULT_NO_SELECTION ==
  <<"-","-","-"," ","P","l","e","a","s","e"," ","S","e","l","e","c","t"," ","-","-","-">>

CURRENCY_OPTIONS_FALLBACK == << <<"D","K","K">>, <<"S","E","K">> >>

\* code-point order of the characters that occur in the data
Alphabet ==
  <<" ", "(", ")", "-", "/", "0", "1", "2", "3", "4", "5", "6", "7", "8", "9",
    "A", "B", "C", "D", "E", "F", "G", "H", "I", "J", "K", "L", "M", "N", "O",
    "P", "Q", "R", "S", "T", "U", "V", "W", "X", "Y", "Z", "_",
    "a", "b", "c", "d", "e", "f", "g", "h", "i", "j", "k", "l", "m", "n", "o",
    "p", "q", "r", "s", "t", "u", "v", "w", "x", "y", "z">>

CharOrd(ch) == CHOOSE i \in 1..Len(Alphabet) : Alphabet[i] = ch

RECURSIVE StrLess(_, _)
\* Python's str.__lt__: lexicographic by code point
StrLess(a, b) ==
  IF b = <<>> THEN FALSE
  ELSE IF a = <<>> THEN TRUE
  ELSE IF a[1] = b[1] THEN StrLess(Tail(a), Tail(b))
  ELSE CharOrd(a[1]) < CharOrd(b[1])

RECURSIVE sorted(_)
\* sorted(...) of a set of distinct strings
sorted(S) ==
  IF S = {} THEN <<>>
  ELSE LET m == CHOOSE x \in S : \A y \in S \ {x} : StrLess(x, y)
       IN  <<m>> \o sorted(S \ {m})

Range(s) == {s[i] : i \in 1..Len(s)}

RECURSIVE unique(_)
\* Series.unique() / dict.fromkeys: first occurrences, in order
unique(s) ==
  IF s = <<>> THEN <<>>
  ELSE LET r == unique(SubSeq(s, 1, Len(s) - 1))
       IN  IF s[Len(s)] \in Range(r) THEN r ELSE Append(r, s[Len(s)])

\* Series.dropna()
dropna(s) == SelectSeq(s, LAMBDA x : x # NA)

safe_str(x) == IF x = NA THEN <<>> ELSE x

\* Series.astype(str) on a column that may hold NaN
astype_str(x) == IF x = NA THEN <<"n","a","n">> ELSE x

\* str.strip() leaves something
NonBlank(s) == \E i \in 1..Len(s) : s[i] # " "

RECURSIVE ReplaceChar(_, _, _)
\* str.replace(old, new) for a one-character old; new is a string
ReplaceChar(s, old, new) ==
  IF s = <<>> THEN <<>>
  ELSE (IF s[1] = old THEN new ELSE <<s[1]>>) \o ReplaceChar(Tail(s), old, new)

RECURSIVE ReplaceDoubleUnderscore(_)
\* str.replace("__", "_"): one left-to-right pass over non-overlapping matches
ReplaceDoubleUnderscore(s) ==
  IF Len(s) < 2 THEN s
  ELSE IF s[1] = "_" /\ s[2] = "_"
       THEN <<"_">> \o ReplaceDoubleUnderscore(SubSeq(s, 3, Len(s)))
       ELSE <<s[1]>> \o ReplaceDoubleUnderscore(Tail(s))

normalize_key(s) ==
  ReplaceDoubleUnderscore(
    ReplaceChar(ReplaceChar(ReplaceChar(ReplaceChar(s, " ", <<"_">>), "/", <<"_">>),
                            "(", <<>>), ")", <<>>))

\* variant: the joined string is used as it is
generic_item_key_raw(family, prod, typ, col) ==
  family \o <<"_">> \o prod \o <<"_">> \o typ \o <<"_">> \o col

\* f"{current_family}_{prod_name}_{uph_type}_{uph_color}" normalised
generic_item_key(family, prod, typ, col) ==
  normalize_key(family \o <<"_">> \o prod \o <<"_">> \o typ \o <<"_">> \o col)

\* ------------------------------------------------------------------------
\* Raw data (raw-data.xlsx): one record per row of the sheet
\* ------------------------------------------------------------------------
Row(cur, fam, prod, typ, col, base, item, art, sw) ==
  [currency |-> cur, family |-> fam, product |-> prod, uph_type |-> typ,
   uph_color |-> col, base |-> base, item_no |-> item, article_no |-> art,
   swatch |-> sw]

EUR == <<"E","U","R">>
DKK == <<"D","K","K">>
SEK == <<"S","E","K">>
FamA == <<"A">>
FamB == <<"B">>
ProdP == <<"P">>
ProdQ == <<"Q"," ","L">>
TypT == <<"T">>
TypU == <<"U">>
Col1 == <<"1">>
Col2 == <<"2">>
Oak == <<"O">>
Wal == <<"W">>

\* A sheet with a cell that has two bases (A/P/T/1), a cell without base
\* (A/P/T/2), two cells sharing an item number (A/P/T/2, A/Q L/T/2), a
\* product name that occurs in two families (Q L), a row without item number
\* (A/P/U/1) and a second currency.
Catalog1 ==
  << Row(EUR, FamA, ProdP, TypT, Col1, Oak, <<"1","0">>, <<"a","0">>, <<"s","1">>),
     Row(EUR, FamA, ProdP, TypT, Col1, Wal, <<"1","1">>, <<"a","1">>, <<"s","1">>),
     Row(EUR, FamA, ProdP, TypT, Col2, NA,  <<"1","2">>, <<"a","2">>, NA),
     Row(EUR, FamA, ProdQ, TypT, Col2, Oak, <<"1","2">>, <<"a","2">>, NA),
     Row(EUR, FamB, ProdQ, TypT, Col1, Wal, <<"1","3">>, <<"a","3">>, <<"s","1">>),
     Row(EUR, FamA, ProdP, TypU, Col1, NA,  NA,          NA,          NA),
     Row(DKK, FamA, ProdP, TypT, Col1, NA,  <<"2","0">>, <<"a","4">>, NA) >>

FamAB == <<"A"," ","B">>
ProdBC == <<"B"," ","C">>
ProdC == <<"C">>

FamA_B == <<"A","_","B">>
Ntl == <<"N">>

\* A sheet in which cells of different families normalise to the same key:
\* "A" / "B C" / T / 1 (three bases), "A B" / "C" / T / 1 and
\* "A_B" / "C" / T / 1 (no base); one row has a blank item number.
Catalog2 ==
  << Row(EUR, FamA,   ProdBC, TypT, Col1, Oak, <<"3","0">>, <<"b","0">>, NA),
     Row(EUR, FamA,   ProdBC, TypT, Col1, Wal, <<"3","1">>, <<"b","1">>, NA),
     Row(EUR, FamA,   ProdBC, TypT, Col1, Ntl, <<"3","3">>, <<"b","3">>, NA),
     Row(EUR, FamAB,  ProdC,  TypT, Col1, NA,  <<"3","2">>, <<"b","2">>, NA),
     Row(EUR, FamA_B, ProdC,  TypT, Col1, NA,  <<"3","4">>, <<"b","4">>, NA),
     Row(EUR, FamA_B, ProdC,  TypT, Col2, NA,  <<" ">>,     <<"b","5">>, NA) >>

\* A sheet in which family B's rows for a product name come before family A's
\* rows for the same product, type and colour (EUR); in which one family has
\* two cells with different sets of bases (DKK); and in which the rows of one
\* (type, colour) pair differ in their swatch (SEK).
Catalog3 ==
  << Row(EUR, FamB, ProdP, TypT, Col1, Wal, <<"4","0">>, NA, NA),
     Row(EUR, FamA, ProdP, TypT, Col1, Oak, <<"4","1">>, NA, NA),
     Row(EUR, FamB, ProdP, TypT, Col2, Oak, <<"4","2">>, NA, NA),
     Row(EUR, FamA, ProdP, TypT, Col2, NA,  <<"4","3">>, NA, NA),
     Row(DKK, FamA, ProdP, TypT, Col1, Oak, <<"5","0">>, NA, NA),
     Row(DKK, FamA, ProdP, TypT, Col1, Wal, <<"5","1">>, NA, NA),
     Row(DKK, FamA, ProdP, TypT, Col2, Oak, <<"5","2">>, NA, NA),
     Row(DKK, FamA, ProdP, TypT, Col2, Ntl, <<"5","3">>, NA, NA),
     Row(SEK, FamA, ProdP, TypT, Col1, NA,  <<"5","4">>, NA, <<"s","1">>),
     Row(SEK, FamA, ProdP, TypT, Col1, NA,  <<"5","5">>, NA, NA) >>

Catalogs == {Catalog1, Catalog2, Catalog3}

\* ------------------------------------------------------------------------
\* Column headers of raw-data.xlsx and of the master data template
\* ------------------------------------------------------------------------
COL_CURRENCY == <<"C","u","r","r","e","n","c","y">>
COL_PRODUCT_FAMILY == <<"P","r","o","d","u","c","t"," ","F","a","m","i","l","y">>
COL_PRODUCT_DISPLAY_NAME == <<"P","r","o","d","u","c","t"," ","D","i","s","p","l","a","y"," ","N","a","m","e">>
COL_ITEM_NAME == <<"I","t","e","m"," ","N","a","m","e">>
COL_UPHOLSTERY_TYPE == <<"U","p","h","o","l","s","t","e","r","y"," ","T","y","p","e">>
COL_UPHOLSTERY_COLOR == <<"U","p","h","o","l","s","t","e","r","y"," ","C","o","l","o","r">>
COL_BASE_COLOR == <<"B","a","s","e"," ","C","o","l","o","r"," ","C","l","e","a","n","e","d">>
COL_ITEM_NO == <<"I","t","e","m"," ","N","o">>
COL_ARTICLE_NO == <<"A","r","t","i","c","l","e"," ","N","o">>
COL_SWATCH == <<"I","m","a","g","e"," ","U","R","L"," ","s","w","a","t","c","h">>
\* price headers as they occur in sheets: with a currency in parentheses, with
\* other capitalisation, with a leading blank
COL_WHOLESALE_EUR == <<"W","h","o","l","e","s","a","l","e"," ","p","r","i","c","e"," ","(","E","U","R",")">>
COL_RETAIL_EUR == <<"R","e","t","a","i","l"," ","p","r","i","c","e"," ","(","E","U","R",")">>
COL_WHOLESALE_BLANK == <<" ","W","h","o","l","e","s","a","l","e"," ","P","r","i","c","e">>
COL_RETAIL_UPPER == <<"R","E","T","A","I","L"," ","P","R","I","C","E"," ","(","E","U","R",")">>
\* template headers
COL_PRODUCT == <<"P","r","o","d","u","c","t">>
COL_EAN == <<"E","A","N">>

\* the field of a row record that holds the cell of a column
FieldOf(c) ==
  CASE c = COL_CURRENCY -> "currency"
    [] c = COL_PRODUCT_FAMILY -> "family"
    [] c = COL_PRODUCT_DISPLAY_NAME -> "product"
    [] c = COL_UPHOLSTERY_TYPE -> "uph_type"
    [] c = COL_UPHOLSTERY_COLOR -> "uph_color"
    [] c = COL_BASE_COLOR -> "base"
    [] c = COL_ITEM_NO -> "item_no"
    [] c = COL_ARTICLE_NO -> "article_no"
    [] c = COL_SWATCH -> "swatch"
    [] OTHER -> "price"

\* the cell of a price column (every row of the sheets below has the same)
PRICE_CELL == <<"9","9">>

RawColumns ==
  << COL_CURRENCY, COL_PRODUCT_FAMILY, COL_PRODUCT_DISPLAY_NAME,
     COL_UPHOLSTERY_TYPE, COL_UPHOLSTERY_COLOR, COL_BASE_COLOR, COL_ITEM_NO,
     COL_ARTICLE_NO, COL_SWATCH >>

\* the files next to the script: raw-data.xlsx (rows and header) and the
\* optional master data template (header only)
Workbook(raw_exists, rows, columns, template_exists, template) ==
  [raw_exists |-> raw_exists, rows |-> rows, columns |-> columns,
   template_exists |-> template_exists, template |-> template]

\* raw data with two price columns, a template with price columns, a column
\* "Product" and a column the raw data does not have
Workbook1 ==
  Workbook(TRUE, Catalog1,
           RawColumns \o <<COL_WHOLESALE_EUR, COL_RETAIL_EUR>>,
           TRUE, << COL_ITEM_NO, COL_PRODUCT, COL_WHOLESALE_BLANK, COL_ARTICLE_NO,
                    COL_RETAIL_UPPER, COL_EAN, COL_UPHOLSTERY_COLOR >>)

\* raw data with price columns, no template file
Workbook2 ==
  Workbook(TRUE, Catalog2,
           <<COL_RETAIL_UPPER>> \o RawColumns \o <<COL_WHOLESALE_BLANK>>,
           FALSE, <<>>)

\* raw data without the column "Article No", a template of price columns only
Workbook3 ==
  Workbook(TRUE, Catalog3,
           << COL_CURRENCY, COL_PRODUCT_FAMILY, COL_PRODUCT_DISPLAY_NAME,
              COL_UPHOLSTERY_TYPE, COL_UPHOLSTERY_COLOR, COL_BASE_COLOR,
              COL_ITEM_NO, COL_SWATCH, COL_WHOLESALE_EUR >>,
           TRUE, <<COL_RETAIL_EUR, COL_WHOLESALE_BLANK>>)

\* no raw-data.xlsx
Workbook0 ==
  Workbook(FALSE, <<>>, <<>>, TRUE, <<COL_ITEM_NO, COL_RETAIL_EUR>>)

Workbooks == {Workbook0, Workbook1, Workbook2, Workbook3}

\* ------------------------------------------------------------------------
\* Session state
\* ------------------------------------------------------------------------
VARIABLES
  raw_df,                            \* st.session_state.raw_df
  filtered_raw_df,                   \* st.session_state.filtered_raw_df
  selected_currency_session,         \* None or a currency
  selected_family_session,           \* DEFAULT_NO_SELECTION or a family
  matrix_selected_generic_items,     \* dict key -> item_data, in insertion order
  user_chosen_base_colors_for_items, \* dict key -> list of base colors
  final_items_for_download,          \* list of review items
  template_cols,                     \* st.session_state.template_cols
  files_loaded_successfully,         \* the script's flag of the same name
  raw_columns,                       \* raw_df.columns (None while not loaded)
  required_columns_warning,          \* the names the st.warning lists
  last                               \* the interaction just served: its
                                     \* arguments, its toast and the store it
                                     \* started from

vars == <<raw_df, filtered_raw_df, selected_currency_session,
          selected_family_session, matrix_selected_generic_items,
          user_chosen_base_colors_for_items, final_items_for_download,
          template_cols, files_loaded_successfully, raw_columns,
          required_columns_warning, last>>

\* ------------------------------------------------------------------------
\* dict helpers: matrix_selected_generic_items is a sequence of item_data
\* records (Python dicts keep insertion order); user_chosen_base_colors_for_items
\* is a function whose domain is its set of keys
\* ------------------------------------------------------------------------
Keys(g) == {g[i].key : i \in 1..Len(g)}

Get(g, k) == g[CHOOSE i \in 1..Len(g) : g[i].key = k]

\* d[k] = v: an existing key keeps its position, a new key goes last
DictSet(g, k, v) ==
  IF k \in Keys(g) THEN [i \in 1..Len(g) |-> IF g[i].key = k THEN v ELSE g[i]]
  ELSE Append(g, v)

\* del d[k] / d.pop(k, None)
DictDel(g, k) == SelectSeq(g, LAMBDA it : it.key # k)

EmptyDict == [k \in {} |-> <<>>]

ChosenGet(c, k) == IF k \in DOMAIN c THEN c[k] ELSE <<>>

ChosenSet(c, k, v) == [x \in DOMAIN c \cup {k} |-> IF x = k THEN v ELSE c[x]]

ChosenDel(c, k) == [x \in DOMAIN c \ {k} |-> c[x]]

\* ------------------------------------------------------------------------
\* Step 1: currency
\* ------------------------------------------------------------------------
Column(df, f) == [i \in 1..Len(df) |-> df[i][f]]

currency_options(raw) ==
  <<DEFAULT_NO_SELECTION>> \o
  sorted(Range(Column(raw, "currency")) \cup Range(CURRENCY_OPTIONS_FALLBACK))

\* raw_df[raw_df[currency_col].astype(str) == str(selected_currency_choice)]
FilterByCurrency(raw, choice) ==
  IF choice = DEFAULT_NO_SELECTION THEN <<>>
  ELSE SelectSeq(raw, LAMBDA r : r.currency = choice)

available_families(df) ==
  <<DEFAULT_NO_SELECTION>> \o sorted(Range(Column(df, "family")))

\* ------------------------------------------------------------------------
\* Step 2: the matrix callbacks
\* ------------------------------------------------------------------------
\* rows of filtered_raw_df on (product, upholstery type, upholstery color);
\* the callbacks do not filter on the family
item_exists_df(df, prod, typ, col) ==
  SelectSeq(df, LAMBDA r : r.product = prod /\ r.uph_type = typ /\ r.uph_color = col)

unique_base_colors(rows) == unique(dropna(Column(rows, "base")))

item_data(key, family, prod, typ, col, rows) ==
  LET ub == unique_base_colors(rows) IN
  [key |-> key, family |-> family, product |-> prod, upholstery_type |-> typ,
   upholstery_color |-> col,
   requires_base_choice |-> Len(ub) > 1,
   available_bases |-> ub,
   resolved_base_if_single |-> IF Len(ub) = 1 THEN ub[1] ELSE NA,
   item_no_if_single_base |-> rows[1].item_no,
   article_no_if_single_base |-> rows[1].article_no]

\* variant: a cell callback that treats a check of a selected cell as a flip
cb_toggle_flipping(g, c, df, family, prod, typ, col, is_checked) ==
  LET key  == generic_item_key(family, prod, typ, col)
      rows == item_exists_df(df, prod, typ, col)
  IN  IF is_checked /\ key \notin Keys(g)
      THEN IF rows = <<>>
           THEN [gen |-> g, chosen |-> c, toast |-> "not_found", count |-> 0]
           ELSE [gen |-> DictSet(g, key, item_data(key, family, prod, typ, col, rows)),
                 chosen |-> c, toast |-> "none", count |-> 0]
      ELSE [gen |-> DictDel(g, key), chosen |-> ChosenDel(c, key),
            toast |-> "none", count |-> 0]

\* variant: a cell callback that leaves the chosen bases behind on uncheck
cb_toggle_keeping_bases(g, c, df, family, prod, typ, col, is_checked) ==
  LET key  == generic_item_key(family, prod, typ, col)
      rows == item_exists_df(df, prod, typ, col)
  IN  IF is_checked
      THEN IF rows = <<>>
           THEN [gen |-> g, chosen |-> c, toast |-> "not_found", count |-> 0]
           ELSE [gen |-> DictSet(g, key, item_data(key, family, prod, typ, col, rows)),
                 chosen |-> c, toast |-> "none", count |-> 0]
      ELSE [gen |-> DictDel(g, key), chosen |-> c, toast |-> "none", count |-> 0]

\* Each callback maps the store (g = matrix_selected_generic_items,
\* c = user_chosen_base_colors_for_items) to the new store and its toast.
handle_matrix_cb_toggle(g, c, df, family, prod, typ, col, is_checked) ==
  LET key  == generic_item_key(family, prod, typ, col)
      rows == item_exists_df(df, prod, typ, col)
  IN  IF is_checked
      THEN IF rows = <<>>
           THEN [gen |-> g, chosen |-> c, toast |-> "not_found", count |-> 0]
           ELSE [gen |-> DictSet(g, key, item_data(key, family, prod, typ, col, rows)),
                 chosen |-> c, toast |-> "none", count |-> 0]
      ELSE [gen |-> DictDel(g, key), chosen |-> ChosenDel(c, key),
            toast |-> "none", count |-> 0]

RECURSIVE select_all_loop(_, _, _, _, _, _, _, _, _)
\* the for-loop of handle_select_all_column_toggle over products_in_family
select_all_loop(g, c, n, df, family, prods, typ, col, is_all) ==
  IF prods = <<>> THEN [gen |-> g, chosen |-> c, toast |-> "column", count |-> n]
  ELSE
    LET prod == prods[1]
        rest == Tail(prods)
        rows == item_exists_df(df, prod, typ, col)
        key  == generic_item_key(family, prod, typ, col)
    IN  IF rows = <<>> THEN select_all_loop(g, c, n, df, family, rest, typ, col, is_all)
        ELSE IF is_all
        THEN IF key \notin Keys(g)
             THEN select_all_loop(
                    DictSet(g, key, item_data(key, family, prod, typ, col, rows)),
                    c, n + 1, df, family, rest, typ, col, is_all)
             ELSE select_all_loop(g, c, n, df, family, rest, typ, col, is_all)
        ELSE select_all_loop(
               DictDel(g, key), ChosenDel(c, key),
               IF key \in Keys(g) THEN n + 1 ELSE n,
               df, family, rest, typ, col, is_all)

handle_select_all_column_toggle(g, c, df, family, prods, typ, col, is_all) ==
  select_all_loop(g, c, 0, df, family, prods, typ, col, is_all)

\* variant: an emptied multiselect deletes the entry and its selection
multiselect_change_pruning(g, c, item_key, chosen_bases) ==
  IF chosen_bases = <<>>
  THEN [gen |-> DictDel(g, item_key), chosen |-> ChosenDel(c, item_key),
        toast |-> "none", count |-> 0]
  ELSE [gen |-> g, chosen |-> ChosenSet(c, item_key, chosen_bases),
        toast |-> "none", count |-> 0]

\* variant: the multiselect's value is appended to the stored list
multiselect_change_appending(g, c, item_key, chosen_bases) ==
  [gen |-> g, chosen |-> ChosenSet(c, item_key, ChosenGet(c, item_key) \o chosen_bases),
   toast |-> "none", count |-> 0]

handle_base_color_multiselect_change(g, c, item_key, chosen_bases) ==
  [gen |-> g, chosen |-> ChosenSet(c, item_key, chosen_bases),
   toast |-> "none", count |-> 0]

RECURSIVE family_base_loop(_, _, _, _, _, _)
\* the for-loop of handle_family_base_color_select_all_toggle over items_in_family
family_base_loop(g, c, n, items, base_color, is_checked) ==
  IF items = <<>> THEN [gen |-> g, chosen |-> c, toast |-> "family_base", count |-> n]
  ELSE
    LET item    == items[1]
        rest    == Tail(items)
        current == ChosenGet(c, item.key)
    IN  IF base_color \notin Range(item.available_bases)
        THEN family_base_loop(g, c, n, rest, base_color, is_checked)
        ELSE IF is_checked
        THEN IF base_color \notin Range(current)
             THEN family_base_loop(g, ChosenSet(c, item.key, Append(current, base_color)),
                                   n + 1, rest, base_color, is_checked)
             ELSE family_base_loop(g, c, n, rest, base_color, is_checked)
        ELSE IF base_color \in Range(current)
             THEN family_base_loop(
                    g, ChosenSet(c, item.key, SelectSeq(current, LAMBDA b : b # base_color)),
                    n + 1, rest, base_color, is_checked)
             ELSE family_base_loop(g, c, n, rest, base_color, is_checked)

RECURSIVE family_base_loop_any_item(_, _, _, _, _, _)
family_base_loop_any_item(g, c, n, items, base_color, is_checked) ==
  IF items = <<>> THEN [gen |-> g, chosen |-> c, toast |-> "family_base", count |-> n]
  ELSE
    LET item    == items[1]
        rest    == Tail(items)
        current == ChosenGet(c, item.key)
    IN  IF is_checked
        THEN IF base_color \notin Range(current)
             THEN family_base_loop_any_item(
                    g, ChosenSet(c, item.key, Append(current, base_color)),
                    n + 1, rest, base_color, is_checked)
             ELSE family_base_loop_any_item(g, c, n, rest, base_color, is_checked)
        ELSE IF base_color \in Range(current)
             THEN family_base_loop_any_item(
                    g, ChosenSet(c, item.key, SelectSeq(current, LAMBDA b : b # base_color)),
                    n + 1, rest, base_color, is_checked)
             ELSE family_base_loop_any_item(g, c, n, rest, base_color, is_checked)

\* variant: the base is applied to every selection of the family, whether or
\* not it is one of its available bases
family_base_toggle_any_item(g, c, items, base_color, is_checked) ==
  family_base_loop_any_item(g, c, 0, items, base_color, is_checked)

RECURSIVE family_base_loop_pruning(_, _, _, _, _, _)
family_base_loop_pruning(g, c, n, items, base_color, is_checked) ==
  IF items = <<>> THEN [gen |-> g, chosen |-> c, toast |-> "family_base", count |-> n]
  ELSE
    LET item    == items[1]
        rest    == Tail(items)
        current == ChosenGet(c, item.key)
        left    == SelectSeq(current, LAMBDA b : b # base_color)
    IN  IF base_color \notin Range(item.available_bases)
        THEN family_base_loop_pruning(g, c, n, rest, base_color, is_checked)
        ELSE IF is_checked
        THEN IF base_color \notin Range(current)
             THEN family_base_loop_pruning(
                    g, ChosenSet(c, item.key, Append(current, base_color)),
                    n + 1, rest, base_color, is_checked)
             ELSE family_base_loop_pruning(g, c, n, rest, base_color, is_checked)
        ELSE IF base_color \in Range(current)
             THEN IF left = <<>>
                  THEN family_base_loop_pruning(DictDel(g, item.key), ChosenDel(c, item.key),
                                                n + 1, rest, base_color, is_checked)
                  ELSE family_base_loop_pruning(g, ChosenSet(c, item.key, left),
                                                n + 1, rest, base_color, is_checked)
             ELSE family_base_loop_pruning(g, c, n, rest, base_color, is_checked)

\* variant: unchecking the last chosen base drops the selection
family_base_toggle_pruning(g, c, items, base_color, is_checked) ==
  family_base_loop_pruning(g, c, 0, items, base_color, is_checked)

handle_family_base_color_select_all_toggle(g, c, items, base_color, is_checked) ==
  family_base_loop(g, c, 0, items, base_color, is_checked)

\* ------------------------------------------------------------------------
\* Step 2: the matrix of the selected family
\* ------------------------------------------------------------------------
\* variant: the rows of every family
family_df_unfiltered(df, family) == df

family_df(df, family) == SelectSeq(df, LAMBDA r : r.family = family)

products_in_family(df, family) == sorted(Range(Column(family_df(df, family), "product")))

upholstery_types_in_family(df, family) ==
  sorted(Range(Column(family_df(df, family), "uph_type")))

RECURSIVE sort_by_color(_)
\* DataFrame.sort_values(by="Upholstery Color"), rows of equal colour keeping
\* their order
sort_by_color(s) ==
  IF s = <<>> THEN <<>>
  ELSE LET i == CHOOSE j \in 1..Len(s) :
                  /\ \A k \in 1..Len(s) : ~StrLess(s[k].uph_color, s[j].uph_color)
                  /\ \A k \in 1..(j - 1) : s[k].uph_color # s[j].uph_color
       IN  <<s[i]>> \o sort_by_color(SubSeq(s, 1, i - 1) \o SubSeq(s, i + 1, Len(s)))

\* the (colour, swatch) pairs of one upholstery type: drop_duplicates, sorted
colors_for_type_df(fdf, typ) ==
  LET rows  == SelectSeq(fdf, LAMBDA r : r.uph_type = typ)
      pairs == [i \in 1..Len(rows) |->
                  [uph_type |-> typ, uph_color |-> rows[i].uph_color,
                   swatch |-> rows[i].swatch]]
  IN  sort_by_color(unique(pairs))

RECURSIVE column_map_loop(_, _)
column_map_loop(fdf, types) ==
  IF types = <<>> THEN <<>>
  ELSE colors_for_type_df(fdf, types[1]) \o column_map_loop(fdf, Tail(types))

data_column_map(df, family) ==
  column_map_loop(family_df(df, family), upholstery_types_in_family(df, family))

\* the key of the "Select All" checkbox of a column
select_all_key(family, typ, col) ==
  normalize_key(<<"s","e","l","e","c","t","_","a","l","l","_","c","b","_">> \o family \o <<"_">> \o typ \o <<"_">> \o col)

\* the key of the checkbox of a cell
cb_key(family, prod, typ, col) ==
  normalize_key(<<"c","b","_">> \o family \o <<"_">> \o prod \o <<"_">> \o typ
                \o <<"_">> \o col)

\* generic_item_key as the data rows of the matrix compute it to show a cell
\* as selected
matrix_item_key(family, prod, typ, col) ==
  normalize_key(family \o <<"_">> \o prod \o <<"_">> \o typ \o <<"_">> \o col)

\* two checkboxes of the matrix get the same key: st.checkbox raises on the
\* second one and the pass ends there, before any checkbox can be used
duplicate_widget_key(df, family) ==
  LET map   == data_column_map(df, family)
      prods == products_in_family(df, family)
      cells == {<<p, i>> \in Range(prods) \X (1..Len(map)) :
                  item_exists_df(family_df(df, family), p, map[i].uph_type,
                                 map[i].uph_color) # <<>>}
  IN  \/ \E i, j \in 1..Len(map) :
           /\ i < j
           /\ select_all_key(family, map[i].uph_type, map[i].uph_color)
                = select_all_key(family, map[j].uph_type, map[j].uph_color)
      \/ \E x, y \in cells :
           /\ x # y
           /\ cb_key(family, x[1], map[x[2]].uph_type, map[x[2]].uph_color)
                = cb_key(family, y[1], map[y[2]].uph_type, map[y[2]].uph_color)

\* the matrix is drawn: a currency is selected, rows are left, a family is
\* chosen and no checkbox key occurs twice
MatrixShown ==
  /\ selected_currency_session # None
  /\ filtered_raw_df # <<>>
  /\ selected_family_session # DEFAULT_NO_SELECTION
  /\ ~duplicate_widget_key(filtered_raw_df, selected_family_session)

\* ------------------------------------------------------------------------
\* Step 2a: base colours
\* ------------------------------------------------------------------------
items_needing_base_choice_now(g) == SelectSeq(g, LAMBDA it : it.requires_base_choice)

items_in_fam(g, fam) ==
  SelectSeq(items_needing_base_choice_now(g), LAMBDA it : it.family = fam)

\* the base colours offered for a family-wide toggle
unique_bases(items) ==
  {b \in UNION {Range(items[i].available_bases) : i \in 1..Len(items)} : NonBlank(b)}

\* what st.multiselect can return: the options picked, in the order picked
NoDupSeqs(S) ==
  {s \in UNION {[1..n -> S] : n \in 0..Cardinality(S)} :
     \A i, j \in 1..Len(s) : i # j => s[i] # s[j]}

\* ------------------------------------------------------------------------
\* Step 3: review list
\* ------------------------------------------------------------------------
Sep == <<" ", "/", " ">>
BaseSep == <<" ", "/", " ", "B", "a", "s", "e", ":", " ">>

base_description(item) ==
  item.family \o Sep \o item.product \o Sep \o item.upholstery_type \o Sep
  \o item.upholstery_color

\* variant: the rows of the selection's cell, whatever their base
specific_any_base(df, item, bc) ==
  SelectSeq(df, LAMBDA r :
    /\ r.family = item.family
    /\ r.product = item.product
    /\ r.uph_type = item.upholstery_type
    /\ r.uph_color = item.upholstery_color)

\* rows of df_filtered for one chosen base of a selection
specific(df, item, bc) ==
  SelectSeq(df, LAMBDA r :
    /\ r.family = item.family
    /\ r.product = item.product
    /\ r.uph_type = item.upholstery_type
    /\ r.uph_color = item.upholstery_color
    /\ astype_str(r.base) = bc)

RECURSIVE chosen_bases_loop(_, _, _)
chosen_bases_loop(df, item, bases) ==
  IF bases = <<>> THEN <<>>
  ELSE LET bc   == bases[1]
           rows == specific(df, item, bc)
       IN  (IF rows = <<>> THEN <<>>
            ELSE << [description |-> base_description(item) \o BaseSep \o bc,
                     item_no |-> rows[1].item_no,
                     article_no |-> rows[1].article_no,
                     key_in_matrix |-> item.key,
                     chosen_base |-> bc] >>)
           \o chosen_bases_loop(df, item, Tail(bases))

RECURSIVE current_final_loop(_, _, _)
current_final_loop(g, c, df) ==
  IF g = <<>> THEN <<>>
  ELSE LET item == g[1] IN
       (IF ~item.requires_base_choice
        THEN << [description |->
                   base_description(item) \o
                   (IF item.resolved_base_if_single # NA
                    THEN BaseSep \o item.resolved_base_if_single ELSE <<>>),
                 item_no |-> item.item_no_if_single_base,
                 article_no |-> item.article_no_if_single_base,
                 key_in_matrix |-> item.key] >>
        ELSE chosen_bases_loop(df, item, ChosenGet(c, item.key)))
       \o current_final_loop(Tail(g), c, df)

\* _current_final_items: the items emitted before de-duplication
current_final_items(g, c, df) ==
  IF df # <<>> THEN current_final_loop(g, c, df) ELSE <<>>

NO_BASE == <<"N","O","_","B","A","S","E">>

\* it.get('chosen_base', 'NO_BASE')
chosen_base_or(it, dflt) == IF "chosen_base" \in DOMAIN it THEN it.chosen_base ELSE dflt

\* variant: a de-duplication key that also carries the selection key
ukey_per_selection(it) ==
  it.key_in_matrix \o <<"_">> \o safe_str(it.item_no) \o <<"_">>
  \o safe_str(chosen_base_or(it, NO_BASE))

ukey(it) == safe_str(it.item_no) \o <<"_">> \o safe_str(chosen_base_or(it, NO_BASE))

RECURSIVE dedup_loop(_, _, _)
dedup_loop(items, out, seen) ==
  IF items = <<>> THEN out
  ELSE LET it == items[1] IN
       IF ukey(it) \notin seen /\ NonBlank(safe_str(it.item_no))
       THEN dedup_loop(Tail(items), Append(out, it), seen \cup {ukey(it)})
       ELSE dedup_loop(Tail(items), out, seen)

RECURSIVE dedup_loop_keeping_blank(_, _, _)
dedup_loop_keeping_blank(items, out, seen) ==
  IF items = <<>> THEN out
  ELSE LET it == items[1] IN
       IF ukey(it) \notin seen
       THEN dedup_loop_keeping_blank(Tail(items), Append(out, it), seen \cup {ukey(it)})
       ELSE dedup_loop_keeping_blank(Tail(items), out, seen)

\* variant: a de-duplication that keeps items without item number
review_list_keeping_blank(g, c, df) ==
  dedup_loop_keeping_blank(current_final_items(g, c, df), <<>>, {})

\* the list stored in final_items_for_download by a script pass
temp_final_list_review(g, c, df) == dedup_loop(current_final_items(g, c, df), <<>>, {})

RECURSIVE list_remove(_, _)
\* list.remove(x): drops the first occurrence
list_remove(s, x) ==
  IF s = <<>> THEN <<>>
  ELSE IF s[1] = x THEN Tail(s) ELSE <<s[1]>> \o list_remove(Tail(s), x)

\* variant: a removal always drops the whole selection
remove_button_whole(g, c, combo) ==
  [gen |-> DictDel(g, combo.key_in_matrix), chosen |-> ChosenDel(c, combo.key_in_matrix),
   toast |-> "removed", count |-> 0]

\* the body of `if col2.button("Remove", ...)` for the review item combo
\* variant: the last base removed takes the selection but not its entry
remove_button_orphaning(g, c, combo) ==
  LET original_key == combo.key_in_matrix IN
  IF original_key \in Keys(g)
  THEN LET details == Get(g, original_key) IN
       IF details.requires_base_choice /\ "chosen_base" \in DOMAIN combo
       THEN LET bc          == combo.chosen_base
                before      == ChosenGet(c, original_key)
                chosen_list == IF bc \in Range(before) THEN list_remove(before, bc)
                               ELSE before
            IN  IF chosen_list = <<>>
                THEN [gen |-> DictDel(g, original_key),
                      chosen |-> ChosenSet(c, original_key, chosen_list),
                      toast |-> "removed", count |-> 0]
                ELSE [gen |-> g, chosen |-> ChosenSet(c, original_key, chosen_list),
                      toast |-> "removed", count |-> 0]
       ELSE [gen |-> DictDel(g, original_key), chosen |-> ChosenDel(c, original_key),
             toast |-> "removed", count |-> 0]
  ELSE [gen |-> g, chosen |-> c, toast |-> "removed", count |-> 0]

remove_button(g, c, combo) ==
  LET original_key == combo.key_in_matrix IN
  IF original_key \in Keys(g)
  THEN LET details == Get(g, original_key) IN
       IF details.requires_base_choice /\ "chosen_base" \in DOMAIN combo
       THEN LET bc          == combo.chosen_base
                before      == ChosenGet(c, original_key)
                chosen_list == IF bc \in Range(before) THEN list_remove(before, bc)
                               ELSE before
            IN  IF chosen_list = <<>>
                THEN [gen |-> DictDel(g, original_key),
                      chosen |-> ChosenDel(c, original_key),
                      toast |-> "removed", count |-> 0]
                ELSE [gen |-> g, chosen |-> ChosenSet(c, original_key, chosen_list),
                      toast |-> "removed", count |-> 0]
       ELSE [gen |-> DictDel(g, original_key), chosen |-> ChosenDel(c, original_key),
             toast |-> "removed", count |-> 0]
  ELSE [gen |-> g, chosen |-> c, toast |-> "removed", count |-> 0]

\* variant: no st.rerun(); the list drawn before the removal stays stored
rerun_after_remove_skipped(g, c, df, shown) == shown

\* st.rerun() after a removal: the script runs again from the top and stores
\* the review list of the store as it now is
rerun_after_remove(g, c, df, shown) == temp_final_list_review(g, c, df)

\* ------------------------------------------------------------------------
\* Loading the files
\* ------------------------------------------------------------------------
UpperCase ==
  <<"A","B","C","D","E","F","G","H","I","J","K","L","M","N","O","P","Q","R","S",
    "T","U","V","W","X","Y","Z">>
LowerCase ==
  <<"a","b","c","d","e","f","g","h","i","j","k","l","m","n","o","p","q","r","s",
    "t","u","v","w","x","y","z">>

\* the lower-case letter of every upper-case letter
LowerOf ==
  [ch \in Range(UpperCase) |->
     LowerCase[CHOOSE k \in 1..Len(UpperCase) : UpperCase[k] = ch]]

\* str.lower()
lower(s) ==
  [i \in 1..Len(s) |-> IF s[i] \in DOMAIN LowerOf THEN LowerOf[s[i]] ELSE s[i]]

RECURSIVE lstrip(_)
lstrip(s) == IF s # <<>> /\ Head(s) = " " THEN lstrip(Tail(s)) ELSE s

RECURSIVE rstrip(_)
rstrip(s) ==
  IF s # <<>> /\ s[Len(s)] = " " THEN rstrip(SubSeq(s, 1, Len(s) - 1)) ELSE s

\* str.strip()
strip(s) == rstrip(lstrip(s))

\* str.startswith()
startswith(s, prefix) ==
  Len(s) >= Len(prefix) /\ SubSeq(s, 1, Len(prefix)) = prefix

WHOLESALE_PRICE == <<"w","h","o","l","e","s","a","l","e"," ","p","r","i","c","e">>
RETAIL_PRICE == <<"r","e","t","a","i","l"," ","p","r","i","c","e">>

\* variant: the header is lower-cased but not stripped
remove_price_columns_unstripped(cols) ==
  SelectSeq(cols, LAMBDA c :
    LET lc == lower(c)
    IN  ~(startswith(lc, WHOLESALE_PRICE) \/ startswith(lc, RETAIL_PRICE)))

remove_price_columns(cols) ==
  SelectSeq(cols, LAMBDA c :
    LET lc == lower(strip(c))
    IN  ~(startswith(lc, WHOLESALE_PRICE) \/ startswith(lc, RETAIL_PRICE)))

\* the header of the template, [] when the file does not exist
load_template_columns(wb) ==
  IF ~wb.template_exists THEN <<>> ELSE wb.template

needed ==
  << COL_PRODUCT_FAMILY, COL_UPHOLSTERY_TYPE, COL_UPHOLSTERY_COLOR, COL_ITEM_NO,
     COL_ARTICLE_NO >>

\* the names get_required_columns_warning lists in its st.warning (no warning
\* when the list is empty)
get_required_columns_warning(columns) ==
  SelectSeq(needed, LAMBDA c : c \notin Range(columns))

\* variant: a missing expected column counts as a failed load
files_loaded_halting(raw_exists, missing) == raw_exists /\ missing = <<>>

\* files_loaded_successfully after the load block: cleared by a missing
\* raw-data.xlsx only, the warning about expected columns leaves it alone
files_loaded(raw_exists, missing) == raw_exists

\* st.session_state.template_cols after the load block
load_template_cols(wb) ==
  LET t == remove_price_columns(load_template_columns(wb))
  IN  IF wb.raw_exists /\ t = <<>> THEN remove_price_columns(wb.columns) ELSE t

\* ------------------------------------------------------------------------
\* Step 4: the output frame
\* ------------------------------------------------------------------------
\* row.get(c) for a column of the raw data
cell(row, c) == IF FieldOf(c) = "price" THEN PRICE_CELL ELSE row[FieldOf(c)]

notna(x) == x # NA /\ x # None

\* the dict "out" of one output row, as the list of its values in the order
\* of cols
output_row(row, cols, columns) ==
  [i \in 1..Len(cols) |->
     LET c == cols[i] IN
     IF lower(strip(c)) = lower(COL_PRODUCT)
     THEN IF COL_ITEM_NAME \in Range(columns) /\ notna(cell(row, COL_ITEM_NAME))
          THEN cell(row, COL_ITEM_NAME)
          ELSE IF COL_PRODUCT_DISPLAY_NAME \in Range(columns)
                  /\ notna(cell(row, COL_PRODUCT_DISPLAY_NAME))
               THEN cell(row, COL_PRODUCT_DISPLAY_NAME)
               ELSE None
     ELSE IF c \in Range(columns) THEN cell(row, c) ELSE None]

\* df[df["Item No"].astype(str) == str(item_no)]
item_no_matches(df, columns, item_no) ==
  IF COL_ITEM_NO \in Range(columns)
  THEN SelectSeq(df, LAMBDA r : astype_str(r.item_no) = astype_str(item_no))
  ELSE <<>>

\* variant: the last matching row
iloc_last(matches) == matches[Len(matches)]

\* matches.iloc[0]
iloc0(matches) == matches[1]

RECURSIVE out_rows_loop(_, _, _, _)
out_rows_loop(final, df, columns, cols) ==
  IF final = <<>> THEN <<>>
  ELSE LET combo   == Head(final)
           item_no == combo.item_no
           matches == item_no_matches(df, columns, item_no)
           rest    == out_rows_loop(Tail(final), df, columns, cols)
       IN  IF item_no = <<>> \/ item_no = NA \/ item_no = None THEN rest
           ELSE IF matches = <<>> THEN rest
           ELSE <<output_row(iloc0(matches), cols, columns)>> \o rest

build_output_dataframe(final, df, columns, tcols) ==
  IF final = <<>> THEN [columns |-> tcols, rows |-> <<>>]
  ELSE LET cols == IF tcols # <<>> THEN tcols ELSE remove_price_columns(columns)
       IN  [columns |-> cols, rows |-> out_rows_loop(final, df, columns, cols)]

\* bool(final_items_for_download and selected_currency_session)
can_download_now(final, cur) == final # <<>> /\ cur # None

\* the output of the pass: built only while can_download_now holds
output_of_pass(final, cur, df, columns, tcols) ==
  IF can_download_now(final, cur)
  THEN build_output_dataframe(final, df, columns, tcols)
  ELSE None

\* ------------------------------------------------------------------------
\* The script pass around the widgets of Step 1 and Step 2
\* ------------------------------------------------------------------------
\* variant: a reset that leaves the family selected
currency_reset_keeping_family(prev, new, g, c, fam) ==
  IF prev # None /\ prev # new
  THEN [gen |-> <<>>, chosen |-> EmptyDict, family |-> fam]
  ELSE [gen |-> g, chosen |-> c, family |-> fam]

\* "Reset selections if currency changed"
currency_reset(prev, new, g, c, fam) ==
  IF prev # None /\ prev # new
  THEN [gen |-> <<>>, chosen |-> EmptyDict, family |-> DEFAULT_NO_SELECTION]
  ELSE [gen |-> g, chosen |-> c, family |-> fam]

\* variant: a family dropdown that empties the store when the family changes
family_selector_clearing(g, c, selected_family) ==
  [gen |-> <<>>, chosen |-> EmptyDict, family |-> selected_family]

\* the family dropdown: the stored family is kept only while it is an option,
\* then the widget's value is stored; the store is not touched
family_selector(g, c, selected_family) ==
  [gen |-> g, chosen |-> c, family |-> selected_family]

\* the value the family dropdown returns when the user has not touched it
family_default(fam, cur, df) ==
  IF cur # None /\ df # <<>> /\ fam \notin Range(available_families(df))
  THEN DEFAULT_NO_SELECTION ELSE fam

Pre ==
  [gen |-> matrix_selected_generic_items,
   chosen |-> user_chosen_base_colors_for_items,
   final |-> final_items_for_download,
   family |-> selected_family_session,
   currency |-> selected_currency_session]

\* the frame behind the download button in the pass that has just run (None
\* while the button is disabled); a local of the script, recomputed from the
\* session state in every pass
output_df ==
  output_of_pass(final_items_for_download, selected_currency_session,
                 filtered_raw_df, raw_columns, template_cols)

\* the download button is enabled
CanDownload == can_download_now(final_items_for_download, selected_currency_session)

Init ==
  /\ \E wb \in Workbooks :
       /\ files_loaded_successfully =
            files_loaded(wb.raw_exists, get_required_columns_warning(wb.columns))
       /\ raw_df = IF wb.raw_exists THEN wb.rows ELSE None
       /\ raw_columns = IF wb.raw_exists THEN wb.columns ELSE None
       /\ required_columns_warning =
            IF wb.raw_exists THEN get_required_columns_warning(wb.columns) ELSE <<>>
       /\ template_cols = load_template_cols(wb)
  /\ filtered_raw_df = <<>>
  /\ selected_currency_session = None
  /\ selected_family_session = DEFAULT_NO_SELECTION
  /\ matrix_selected_generic_items = <<>>
  /\ user_chosen_base_colors_for_items = EmptyDict
  /\ final_items_for_download = <<>>
  /\ last = [op |-> "init"]

\* a callback has run; the script pass that follows stores the review list
AfterCallback(r) ==
  /\ files_loaded_successfully
  /\ matrix_selected_generic_items' = r.gen
  /\ user_chosen_base_colors_for_items' = r.chosen
  /\ final_items_for_download' = temp_final_list_review(r.gen, r.chosen, filtered_raw_df)
  /\ UNCHANGED <<raw_df, filtered_raw_df, selected_currency_session,
                 selected_family_session, template_cols,
                 files_loaded_successfully, raw_columns, required_columns_warning>>

\* the user picks another entry of the currency dropdown
CurrencyChange ==
  /\ files_loaded_successfully
  /\ \E choice \in Range(currency_options(raw_df)) :
    LET new == IF choice = DEFAULT_NO_SELECTION THEN None ELSE choice
        df  == FilterByCurrency(raw_df, choice)
        r   == currency_reset(selected_currency_session, new,
                              matrix_selected_generic_items,
                              user_chosen_base_colors_for_items,
                              selected_family_session)
    IN  /\ new # selected_currency_session
        /\ selected_currency_session' = new
        /\ filtered_raw_df' = df
        /\ matrix_selected_generic_items' = r.gen
        /\ user_chosen_base_colors_for_items' = r.chosen
        /\ selected_family_session' = family_default(r.family, new, df)
        /\ final_items_for_download' = temp_final_list_review(r.gen, r.chosen, df)
        /\ last' = [op |-> "currency", choice |-> choice, pre |-> Pre]
        /\ UNCHANGED <<raw_df, template_cols, files_loaded_successfully,
                       raw_columns, required_columns_warning>>

\* the user picks another entry of the family dropdown
FamilyChange ==
  /\ files_loaded_successfully
  /\ selected_currency_session # None
  /\ filtered_raw_df # <<>>
  /\ \E selected_family \in Range(available_families(filtered_raw_df)) :
       LET r == family_selector(matrix_selected_generic_items,
                                user_chosen_base_colors_for_items, selected_family)
       IN  /\ selected_family # selected_family_session
           /\ selected_family_session' = r.family
           /\ matrix_selected_generic_items' = r.gen
           /\ user_chosen_base_colors_for_items' = r.chosen
           /\ final_items_for_download' =
                temp_final_list_review(r.gen, r.chosen, filtered_raw_df)
           /\ last' = [op |-> "family", choice |-> selected_family, pre |-> Pre]
           /\ UNCHANGED <<raw_df, filtered_raw_df, selected_currency_session,
                          template_cols, files_loaded_successfully, raw_columns,
                          required_columns_warning>>

\* a grid position of the matrix carries a checkbox: the family has a row for it
item_exists_in_family(df, family, prod, typ, col) ==
  item_exists_df(family_df(df, family), prod, typ, col)

ToggleCellOf(prod, m, is_checked, op) ==
  LET r == handle_matrix_cb_toggle(
             matrix_selected_generic_items, user_chosen_base_colors_for_items,
             filtered_raw_df, selected_family_session,
             prod, m.uph_type, m.uph_color, is_checked)
  IN  /\ Len(r.gen) <= MaxSel
      /\ AfterCallback(r)
      /\ last' = [op |-> op, prod |-> prod, uph_type |-> m.uph_type,
                  uph_color |-> m.uph_color, checked |-> is_checked,
                  toast |-> r.toast, count |-> r.count, pre |-> Pre]

\* a checkbox of the matrix grid changes
ToggleCell ==
  /\ MatrixShown
  /\ \E prod \in Range(products_in_family(filtered_raw_df, selected_family_session)),
        m \in Range(data_column_map(filtered_raw_df, selected_family_session)),
        is_checked \in BOOLEAN :
       /\ item_exists_in_family(filtered_raw_df, selected_family_session,
                                prod, m.uph_type, m.uph_color) # <<>>
       /\ ToggleCellOf(prod, m, is_checked, "toggleCell")

\* handle_matrix_cb_toggle called for a grid position that carries no checkbox
\* (the page never does this; it exercises the callback's own lookup)
ToggleCellDirect ==
  /\ MatrixShown
  /\ \E prod \in Range(products_in_family(filtered_raw_df, selected_family_session)),
        m \in Range(data_column_map(filtered_raw_df, selected_family_session)),
        is_checked \in BOOLEAN :
       /\ item_exists_in_family(filtered_raw_df, selected_family_session,
                                prod, m.uph_type, m.uph_color) = <<>>
       /\ ToggleCellOf(prod, m, is_checked, "toggleCellDirect")

\* a "Select All" checkbox of a matrix column changes
ToggleColumn ==
  /\ MatrixShown
  /\ \E m \in Range(data_column_map(filtered_raw_df, selected_family_session)),
        is_all \in BOOLEAN :
       LET r == handle_select_all_column_toggle(
                  matrix_selected_generic_items, user_chosen_base_colors_for_items,
                  filtered_raw_df, selected_family_session,
                  products_in_family(filtered_raw_df, selected_family_session),
                  m.uph_type, m.uph_color, is_all)
       IN  /\ Len(r.gen) <= MaxSel
           /\ AfterCallback(r)
           /\ last' = [op |-> "toggleColumn", uph_type |-> m.uph_type,
                       uph_color |-> m.uph_color, checked |-> is_all,
                       toast |-> r.toast, count |-> r.count, pre |-> Pre]

\* the multiselect of one selection that needs a base colour changes
SetChosenBases ==
  \E i \in 1..Len(items_needing_base_choice_now(matrix_selected_generic_items)) :
    LET it == items_needing_base_choice_now(matrix_selected_generic_items)[i] IN
    \E bases \in NoDupSeqs(Range(it.available_bases)) :
      LET r == handle_base_color_multiselect_change(
                 matrix_selected_generic_items, user_chosen_base_colors_for_items,
                 it.key, bases)
      IN  /\ AfterCallback(r)
          /\ last' = [op |-> "setChosenBases", key |-> it.key, bases |-> bases,
                      toast |-> r.toast, count |-> r.count, pre |-> Pre]

\* a family-wide base colour checkbox changes
ToggleFamilyBase ==
  \E i \in 1..Len(items_needing_base_choice_now(matrix_selected_generic_items)) :
    LET fam   == items_needing_base_choice_now(matrix_selected_generic_items)[i].family
        items == items_in_fam(matrix_selected_generic_items, fam)
    IN  \E base \in unique_bases(items), is_checked \in BOOLEAN :
          LET r == handle_family_base_color_select_all_toggle(
                     matrix_selected_generic_items, user_chosen_base_colors_for_items,
                     items, base, is_checked)
          IN  /\ AfterCallback(r)
              /\ last' = [op |-> "toggleFamilyBase", family |-> fam, base |-> base,
                          items |-> items, checked |-> is_checked,
                          toast |-> r.toast, count |-> r.count, pre |-> Pre]

\* a "Remove" button of the review list is pressed
Remove ==
  /\ files_loaded_successfully
  /\ \E i \in 1..Len(final_items_for_download) :
    LET combo == final_items_for_download[i]
        r     == remove_button(matrix_selected_generic_items,
                               user_chosen_base_colors_for_items, combo)
    IN  /\ matrix_selected_generic_items' = r.gen
        /\ user_chosen_base_colors_for_items' = r.chosen
        /\ final_items_for_download' =
             rerun_after_remove(r.gen, r.chosen, filtered_raw_df, final_items_for_download)
        /\ last' = [op |-> "remove", combo |-> combo, toast |-> r.toast,
                    count |-> r.count, pre |-> Pre]
        /\ UNCHANGED <<raw_df, filtered_raw_df, selected_currency_session,
                       selected_family_session, template_cols,
                       files_loaded_successfully, raw_columns,
                       required_columns_warning>>

Next ==
  \/ CurrencyChange
  \/ FamilyChange
  \/ ToggleCell
  \/ ToggleColumn
  \/ SetChosenBases
  \/ ToggleFamilyBase
  \/ Remove

Spec == Init /\ [][Next]_vars

\* the page together with direct calls of the cell callback
NextHandler == Next \/ ToggleCellDirect

SpecHandler == Init /\ [][NextHandler]_vars

\* ------------------------------------------------------------------------
\* Properties
\* ------------------------------------------------------------------------
\* the interaction just served switched the family from one family to another
FamilySwitched ==
  /\ last.op = "family"
  /\ last.pre.family # DEFAULT_NO_SELECTION
  /\ last.choice # DEFAULT_NO_SELECTION

StoreAsBefore ==
  /\ matrix_selected_generic_items = last.pre.gen
  /\ user_chosen_base_colors_for_items = last.pre.chosen

\* C1 as stated: once the active family has changed from a family A to a
\* different family B, the selections, the chosen bases and the review list are
\* empty, so nothing of family A is left.
C1_FamilySwitchClears ==
  FamilySwitched =>
    /\ matrix_selected_generic_items = <<>>
    /\ user_chosen_base_colors_for_items = EmptyDict
    /\ final_items_for_download = <<>>

\* C1 amended: a change of the active family from a family A to a different
\* family B leaves the selections, the chosen bases and the review list exactly
\* as they were; the selections of family A stay.
C1_FamilySwitchKeepsStore ==
  FamilySwitched => StoreAsBefore /\ final_items_for_download = last.pre.final

C1_Witness ==
  /\ FamilySwitched
  /\ \E i \in 1..Len(matrix_selected_generic_items) :
       matrix_selected_generic_items[i].family = last.pre.family
  /\ DOMAIN user_chosen_base_colors_for_items # {}
  /\ final_items_for_download # <<>>

LastBaseUnchecked(it) ==
  /\ last.op = "toggleFamilyBase"
  /\ ~last.checked
  /\ ChosenGet(last.pre.chosen, it.key) = <<last.base>>

Without(d, k) == [x \in DOMAIN d \ {k} |-> d[x]]

\* C4: removing a review item of a multi-base selection takes exactly that base
\* out of the selection's chosen bases and prunes the selection and its entry
\* exactly when no base is left; removing an item of another selection drops
\* that selection; every other selection and entry is as before.
C4_RemovalContract ==
  last.op = "remove" =>
    LET k      == last.combo.key_in_matrix
        sel    == Get(last.pre.gen, k)
        before == ChosenGet(last.pre.chosen, k)
    IN  /\ k \in Keys(last.pre.gen)
        /\ DictDel(matrix_selected_generic_items, k) = DictDel(last.pre.gen, k)
        /\ Without(user_chosen_base_colors_for_items, k) = Without(last.pre.chosen, k)
        /\ IF sel.requires_base_choice /\ "chosen_base" \in DOMAIN last.combo
           THEN LET bc == last.combo.chosen_base
                    i  == CHOOSE j \in 1..Len(before) : before[j] = bc
                    left == SubSeq(before, 1, i - 1) \o SubSeq(before, i + 1, Len(before))
                IN  /\ bc \in Range(before)
                    /\ IF left = <<>>
                       THEN /\ k \notin Keys(matrix_selected_generic_items)
                            /\ k \notin DOMAIN user_chosen_base_colors_for_items
                       ELSE /\ matrix_selected_generic_items = last.pre.gen
                            /\ k \in DOMAIN user_chosen_base_colors_for_items
                            /\ user_chosen_base_colors_for_items[k] = left
           ELSE k \notin Keys(matrix_selected_generic_items)

C4_Witness ==
  /\ last.op = "remove"
  /\ "chosen_base" \in DOMAIN last.combo
  /\ last.combo.key_in_matrix \in Keys(matrix_selected_generic_items)
  /\ Len(matrix_selected_generic_items) > 1

\* the pair a review item is de-duplicated on
Pair(it) == <<it.item_no, chosen_base_or(it, NO_BASE)>>

\* C5: no two items of the review list share (item number, chosen base or the
\* no-base sentinel); each kept item is the first emitted item with its pair,
\* and the kept items are in emission order.
C5_ReviewListUnique ==
  LET em  == current_final_items(matrix_selected_generic_items,
                                 user_chosen_base_colors_for_items, filtered_raw_df)
      fin == final_items_for_download
      first(it) == CHOOSE j \in 1..Len(em) :
                     /\ Pair(em[j]) = Pair(it)
                     /\ \A k \in 1..(j - 1) : Pair(em[k]) # Pair(it)
  IN  /\ \A i, j \in 1..Len(fin) : i # j => Pair(fin[i]) # Pair(fin[j])
      /\ \A i \in 1..Len(fin) : \E j \in 1..Len(em) : Pair(em[j]) = Pair(fin[i])
      /\ \A i \in 1..Len(fin) : fin[i] = em[first(fin[i])]
      /\ \A i, j \in 1..Len(fin) : i < j => first(fin[i]) < first(fin[j])

C5_Witness ==
  LET em == current_final_items(matrix_selected_generic_items,
                                user_chosen_base_colors_for_items, filtered_raw_df)
  IN  /\ \E i, j \in 1..Len(em) : i < j /\ Pair(em[i]) = Pair(em[j])
                                   /\ NonBlank(safe_str(em[i].item_no))
      /\ Len(final_items_for_download) = 1

\* the key of the cell the interaction just served was about
LastKey == generic_item_key(last.pre.family, last.prod, last.uph_type, last.uph_color)

\* C6: checking a cell twice in a row leaves the store as checking it once:
\* one selection under the cell's key, with the same data, and the chosen
\* bases as the first call left them.
C6_CheckTwiceIsCheckOnce ==
  MatrixShown =>
    \A prod \in Range(products_in_family(filtered_raw_df, selected_family_session)),
       m \in Range(data_column_map(filtered_raw_df, selected_family_session)) :
      LET once  == handle_matrix_cb_toggle(
                     matrix_selected_generic_items, user_chosen_base_colors_for_items,
                     filtered_raw_df, selected_family_session,
                     prod, m.uph_type, m.uph_color, TRUE)
          twice == handle_matrix_cb_toggle(
                     once.gen, once.chosen, filtered_raw_df, selected_family_session,
                     prod, m.uph_type, m.uph_color, TRUE)
          key   == generic_item_key(selected_family_session, prod, m.uph_type, m.uph_color)
      IN  /\ twice.gen = once.gen
          /\ twice.chosen = once.chosen
          /\ twice.toast = once.toast
          /\ once.toast = "none" =>
               Cardinality({i \in 1..Len(twice.gen) : twice.gen[i].key = key}) = 1

C6_Witness ==
  /\ last.op = "toggleCell"
  /\ last.checked
  /\ LastKey \in Keys(last.pre.gen)
  /\ LastKey \in DOMAIN last.pre.chosen
  /\ StoreAsBefore

\* C7: toggleColumn, setChosenBases and toggleFamilyBase applied twice in a row
\* with the same arguments leave the store as one application does; the second
\* toggleColumn or toggleFamilyBase reports a count of 0.
C7_BulkOperationsIdempotent ==
  /\ MatrixShown =>
       \A m \in Range(data_column_map(filtered_raw_df, selected_family_session)),
          is_all \in BOOLEAN :
         LET prods == products_in_family(filtered_raw_df, selected_family_session)
             once  == handle_select_all_column_toggle(
                        matrix_selected_generic_items, user_chosen_base_colors_for_items,
                        filtered_raw_df, selected_family_session, prods,
                        m.uph_type, m.uph_color, is_all)
             twice == handle_select_all_column_toggle(
                        once.gen, once.chosen, filtered_raw_df, selected_family_session,
                        prods, m.uph_type, m.uph_color, is_all)
         IN  twice.gen = once.gen /\ twice.chosen = once.chosen /\ twice.count = 0
  /\ \A i \in 1..Len(items_needing_base_choice_now(matrix_selected_generic_items)) :
       LET it    == items_needing_base_choice_now(matrix_selected_generic_items)[i]
           items == items_in_fam(matrix_selected_generic_items, it.family)
       IN  /\ \A bases \in NoDupSeqs(Range(it.available_bases)) :
                LET once  == handle_base_color_multiselect_change(
                               matrix_selected_generic_items,
                               user_chosen_base_colors_for_items, it.key, bases)
                    twice == handle_base_color_multiselect_change(
                               once.gen, once.chosen, it.key, bases)
                IN  twice.gen = once.gen /\ twice.chosen = once.chosen
           /\ \A base \in unique_bases(items), is_checked \in BOOLEAN :
                LET once  == handle_family_base_color_select_all_toggle(
                               matrix_selected_generic_items,
                               user_chosen_base_colors_for_items, items, base, is_checked)
                    twice == handle_family_base_color_select_all_toggle(
                               once.gen, once.chosen, items, base, is_checked)
                IN  twice.gen = once.gen /\ twice.chosen = once.chosen /\ twice.count = 0

C7_Witness ==
  /\ last.op = "toggleColumn"
  /\ last.checked
  /\ last.count = 0
  /\ StoreAsBefore
  /\ \E prod \in Range(products_in_family(filtered_raw_df, last.pre.family)) :
       generic_item_key(last.pre.family, prod, last.uph_type, last.uph_color)
         \in Keys(matrix_selected_generic_items)

\* the products of the active family that have a row of that family for the
\* column the interaction just served was about
MatchingProducts ==
  {prod \in Range(products_in_family(filtered_raw_df, last.pre.family)) :
     item_exists_in_family(filtered_raw_df, last.pre.family, prod,
                           last.uph_type, last.uph_color) # <<>>}

\* C8: toggleColumn reports the number of selections it added (checked) or
\* removed (unchecked); on a column with n matching products, none of them
\* selected, checking adds exactly those n selections and reports n, and
\* unchecking a column whose n matching products are selected removes exactly
\* those n and reports n.
C8_ColumnCount ==
  last.op = "toggleColumn" =>
    LET K       == {generic_item_key(last.pre.family, prod, last.uph_type, last.uph_color) :
                      prod \in MatchingProducts}
        added   == Keys(matrix_selected_generic_items) \ Keys(last.pre.gen)
        removed == Keys(last.pre.gen) \ Keys(matrix_selected_generic_items)
    IN  /\ last.count = Cardinality(IF last.checked THEN added ELSE removed)
        /\ (last.checked /\ K \cap Keys(last.pre.gen) = {}) =>
             added = K /\ last.count = Cardinality(MatchingProducts)
        /\ (~last.checked /\ K \subseteq Keys(last.pre.gen)) =>
             removed = K /\ last.count = Cardinality(MatchingProducts)

\* C9: checking a cell (family, product, type, colour) for which the catalog
\* has no row signals not-found and changes neither the selections, nor the
\* chosen bases, nor the review list.
C9_NotFoundIsNoOp ==
  ( /\ last.op \in {"toggleCell", "toggleCellDirect"}
    /\ last.checked
    /\ item_exists_in_family(filtered_raw_df, last.pre.family, last.prod,
                             last.uph_type, last.uph_color) = <<>> )
  => /\ last.toast = "not_found"
     /\ StoreAsBefore
     /\ final_items_for_download = last.pre.final

\* C10: unchecking a cell removes the selection and the chosen-bases entry of
\* the cell's key, so a cell that is checked again starts without chosen bases.
C10_UncheckRemovesBoth ==
  last.op = "toggleCell" =>
    /\ ~last.checked =>
         /\ LastKey \notin Keys(matrix_selected_generic_items)
         /\ LastKey \notin DOMAIN user_chosen_base_colors_for_items
    /\ (last.checked /\ LastKey \notin Keys(last.pre.gen)) =>
         LastKey \notin DOMAIN user_chosen_base_colors_for_items

C10_Witness ==
  /\ last.op = "toggleCell"
  /\ ~last.checked
  /\ LastKey \in DOMAIN last.pre.chosen
  /\ last.pre.chosen[LastKey] # <<>>

\* ------------------------------------------------------------------------
\* Properties of the store, the resolver and the output
\* ------------------------------------------------------------------------
\* C11 as stated: in every state, no selection with requires_base_choice =
\* false has an entry in user_chosen_base_colors_for_items.
C11_NoEntryWithoutBaseChoice ==
  \A i \in 1..Len(matrix_selected_generic_items) :
    ~matrix_selected_generic_items[i].requires_base_choice =>
      matrix_selected_generic_items[i].key
        \notin DOMAIN user_chosen_base_colors_for_items

\* the items the resolver emits, before de-duplication
Emitted ==
  current_final_items(matrix_selected_generic_items,
                      user_chosen_base_colors_for_items, filtered_raw_df)

\* C12: every item of the review list has an item number that is present and
\* not blank; emitted items without one are not in the list, so none of them
\* reaches the output.
C12_ReviewItemsHaveItemNo ==
  /\ \A i \in 1..Len(final_items_for_download) :
       LET no == final_items_for_download[i].item_no IN
       no # NA /\ no # None /\ no # <<>> /\ \E k \in 1..Len(no) : no[k] # " "
  /\ \A i \in 1..Len(Emitted) :
       LET no == Emitted[i].item_no IN
       (no = NA \/ \A k \in 1..Len(no) : no[k] = " ") =>
         Emitted[i] \notin Range(final_items_for_download)

C12_Witness ==
  /\ final_items_for_download # <<>>
  /\ \E i \in 1..Len(Emitted) :
       LET no == Emitted[i].item_no IN no = NA \/ \A k \in 1..Len(no) : no[k] = " "

\* the rows of the cell a selection stands for: its own family, product,
\* upholstery type and colour
OwnRows(s) ==
  item_exists_in_family(filtered_raw_df, s.family, s.product,
                        s.upholstery_type, s.upholstery_color)

\* the emitted items of one selection
EmittedOf(s) == SelectSeq(Emitted, LAMBDA it : it.key_in_matrix = s.key)

\* C13 as stated: a selection that needs no base choice and whose cell has a
\* row with an item number yields exactly one emitted item, with that row's
\* item number and article number; the description is "family / product /
\* type / colour", followed by the base suffix only when the cell has exactly
\* one base colour.
C13_SingleItemFromOwnRow ==
  \A i \in 1..Len(matrix_selected_generic_items) :
    LET s     == matrix_selected_generic_items[i]
        own   == OwnRows(s)
        bases == unique_base_colors(own)
    IN  (~s.requires_base_choice /\ own # <<>>) =>
          /\ Len(EmittedOf(s)) = 1
          /\ EmittedOf(s)[1].item_no = own[1].item_no
          /\ EmittedOf(s)[1].article_no = own[1].article_no
          /\ EmittedOf(s)[1].description =
               base_description(s) \o
               (IF Len(bases) = 1 THEN BaseSep \o bases[1] ELSE <<>>)

\* the first row of df that matches a selection and a base on family,
\* product, type, colour and base
MatchesBase(r, s, bc) ==
  /\ r.family = s.family
  /\ r.product = s.product
  /\ r.uph_type = s.upholstery_type
  /\ r.uph_color = s.upholstery_color
  /\ r.base # NA
  /\ r.base = bc

HasMatch(s, bc) ==
  \E j \in 1..Len(filtered_raw_df) : MatchesBase(filtered_raw_df[j], s, bc)

FirstMatch(s, bc) ==
  filtered_raw_df[CHOOSE j \in 1..Len(filtered_raw_df) :
                    /\ MatchesBase(filtered_raw_df[j], s, bc)
                    /\ \A k \in 1..(j - 1) : ~MatchesBase(filtered_raw_df[k], s, bc)]

IsPriceName(c) ==
  \E n \in 0..Len(c) :
    /\ \A k \in 1..n : c[k] = " "
    /\ \E p \in {WHOLESALE_PRICE, RETAIL_PRICE} :
         /\ Len(c) >= n + Len(p)
         /\ \A k \in 1..Len(p) : lower(<<c[n + k]>>) = <<p[k]>>

\* C15: neither the stored column list nor the column list of the output
\* contains a header that, stripped and lower-cased, starts with "wholesale
\* price" or "retail price", whether the list comes from the template or from
\* the raw data's own header.
C15_NoPriceColumns ==
  /\ \A i \in 1..Len(template_cols) : ~IsPriceName(template_cols[i])
  /\ CanDownload =>
       \A i \in 1..Len(output_df.columns) : ~IsPriceName(output_df.columns[i])

C15_Witness ==
  /\ CanDownload
  /\ output_df.rows # <<>>
  /\ \E i \in 1..Len(raw_columns) : IsPriceName(raw_columns[i])
  /\ \E i \in 1..Len(output_df.columns) : output_df.columns[i] = COL_ITEM_NO

\* a row of the filtered data carries the item number of a review item
HasItemNo(r, it) == r.item_no # NA /\ r.item_no = it.item_no

\* C16: the output has one row per review item whose item number occurs in
\* the filtered data, in the order of the review list; each row is read from
\* the first row of the filtered data with that item number, and a review item
\* whose item number does not occur adds no row.
C16_OneRowPerReviewItem ==
  CanDownload =>
    LET df    == filtered_raw_df
        found == SelectSeq(final_items_for_download,
                           LAMBDA it : \E j \in 1..Len(df) : HasItemNo(df[j], it))
        src(it) == df[CHOOSE j \in 1..Len(df) :
                        /\ HasItemNo(df[j], it)
                        /\ \A k \in 1..(j - 1) : ~HasItemNo(df[k], it)]
    IN  /\ Len(output_df.rows) = Len(found)
        /\ \A n \in 1..Len(found) :
             output_df.rows[n] = output_row(src(found[n]), output_df.columns, raw_columns)

C16_Witness ==
  /\ CanDownload
  /\ Len(output_df.rows) = 2
  /\ Len(final_items_for_download) = 2
  /\ \E n \in 1..2 :
       Cardinality({j \in 1..Len(filtered_raw_df) :
                      HasItemNo(filtered_raw_df[j], final_items_for_download[n])}) = 2

CellOf(s) == <<s.family, s.product, s.upholstery_type, s.upholstery_color>>

\* C18 as stated: a cell that is checked gets a key different from the key of
\* every selected cell that differs from it in family, product, type or
\* colour, so the selections of those cells and their chosen bases are as
\* before.
C18_DistinctCellsDistinctKeys ==
  (last.op = "toggleCell" /\ last.checked) =>
    LET cell_now == <<last.pre.family, last.prod, last.uph_type, last.uph_color>>
        key_now  == generic_item_key(last.pre.family, last.prod, last.uph_type,
                                     last.uph_color)
    IN  \A i \in 1..Len(last.pre.gen) :
          LET s == last.pre.gen[i] IN
          CellOf(s) # cell_now =>
            /\ s.key # key_now
            /\ s \in Range(matrix_selected_generic_items)
            /\ \A j \in 1..Len(matrix_selected_generic_items) :
                 matrix_selected_generic_items[j].key = s.key =>
                   matrix_selected_generic_items[j] = s

\* C19 as stated: a selection needs a base choice exactly when the rows of its
\* own (family, product, type, colour) have at least two distinct base
\* colours, and then its available bases are exactly the base colours of
\* those rows.
C19_BaseChoiceFromOwnRows ==
  \A i \in 1..Len(matrix_selected_generic_items) :
    LET s     == matrix_selected_generic_items[i]
        bases == {r.base : r \in {x \in Range(OwnRows(s)) : x.base # NA}}
    IN  /\ s.requires_base_choice <=> Cardinality(bases) >= 2
        /\ s.requires_base_choice => Range(s.available_bases) = bases

LastBaseRemoved ==
  /\ last.op = "remove"
  /\ "chosen_base" \in DOMAIN last.combo
  /\ last.combo.key_in_matrix \in Keys(last.pre.gen)
  /\ Get(last.pre.gen, last.combo.key_in_matrix).requires_base_choice
  /\ ChosenGet(last.pre.chosen, last.combo.key_in_matrix) = <<last.combo.chosen_base>>

C21_FamilyBaseFrame ==
  last.op = "toggleFamilyBase" =>
    /\ matrix_selected_generic_items = last.pre.gen
    /\ \A i \in 1..Len(last.pre.gen) :
         LET s        == last.pre.gen[i]
             before   == ChosenGet(last.pre.chosen, s.key)
             after    == ChosenGet(user_chosen_base_colors_for_items, s.key)
             affected == /\ s \in Range(last.items)
                         /\ last.base \in Range(s.available_bases)
         IN  IF affected
             THEN IF last.checked
                  THEN after = IF last.base \in Range(before) THEN before
                               ELSE before \o <<last.base>>
                  ELSE after = SelectSeq(before, LAMBDA b : b # last.base)
             ELSE /\ after = before
                  /\ s.key \in DOMAIN user_chosen_base_colors_for_items
                       <=> s.key \in DOMAIN last.pre.chosen
    /\ \A k \in DOMAIN user_chosen_base_colors_for_items :
         k \in DOMAIN last.pre.chosen \/ k \in Keys(last.pre.gen)

\* one selection of the family lacks the base and keeps its chosen bases,
\* another one has it and changes
C21_Witness ==
  /\ last.op = "toggleFamilyBase"
  /\ \E i, j \in 1..Len(last.items) :
       /\ last.base \notin Range(last.items[i].available_bases)
       /\ ChosenGet(last.pre.chosen, last.items[i].key) # <<>>
       /\ last.base \in Range(last.items[j].available_bases)
       /\ ChosenGet(user_chosen_base_colors_for_items, last.items[j].key)
            # ChosenGet(last.pre.chosen, last.items[j].key)

\* the pass builds a matrix: a currency is selected, rows are left and a
\* family is chosen
MatrixBuilt ==
  /\ selected_currency_session # None
  /\ filtered_raw_df # <<>>
  /\ selected_family_session # DEFAULT_NO_SELECTION

\* a row of the family for a product, an upholstery type and a colour
FamilyRow(r, prod, typ, col) ==
  /\ r.family = selected_family_session
  /\ r.product = prod
  /\ r.uph_type = typ
  /\ r.uph_color = col

\* C22: in the matrix of a family a cell (product, column) carries a checkbox
\* exactly when a row of that family has the product and the column's type
\* and colour; every column stands for a (type, colour) pair of the family's
\* rows and every such pair has a column; the columns are in ascending order
\* of type and, within a type, in ascending order of colour.
C22_MatrixCellsAndOrder ==
  MatrixBuilt =>
    LET df    == filtered_raw_df
        fam   == selected_family_session
        map   == data_column_map(df, fam)
        prods == products_in_family(df, fam)
    IN  /\ \A p \in Range(prods), i \in 1..Len(map) :
             (item_exists_in_family(df, fam, p, map[i].uph_type, map[i].uph_color) # <<>>)
               <=> \E k \in 1..Len(df) :
                     FamilyRow(df[k], p, map[i].uph_type, map[i].uph_color)
        /\ \A i \in 1..Len(map) :
             \E k \in 1..Len(df) :
               FamilyRow(df[k], df[k].product, map[i].uph_type, map[i].uph_color)
        /\ \A k \in 1..Len(df) :
             df[k].family = fam =>
               /\ df[k].product \in Range(prods)
               /\ \E i \in 1..Len(map) :
                    map[i].uph_type = df[k].uph_type /\ map[i].uph_color = df[k].uph_color
        /\ \A i, j \in 1..Len(map) :
             i < j =>
               \/ StrLess(map[i].uph_type, map[j].uph_type)
               \/ /\ map[i].uph_type = map[j].uph_type
                  /\ ~StrLess(map[j].uph_color, map[i].uph_color)

\* a matrix of three columns over two types, with a cell that has no checkbox
C22_Witness ==
  /\ MatrixBuilt
  /\ LET map   == data_column_map(filtered_raw_df, selected_family_session)
         prods == products_in_family(filtered_raw_df, selected_family_session)
     IN  /\ Len(map) = 3
         /\ \E i, j \in 1..3 : map[i].uph_type # map[j].uph_type
         /\ \E i, j \in 1..3 : /\ map[i].uph_type = map[j].uph_type
                               /\ map[i].uph_color # map[j].uph_color
         /\ \E p \in Range(prods), i \in 1..3 :
              item_exists_in_family(filtered_raw_df, selected_family_session, p,
                                    map[i].uph_type, map[i].uph_color) = <<>>

\* C23 as stated: no (type, colour) pair occurs as two columns of the matrix.
C23_ColumnsAreDistinctPairs ==
  MatrixBuilt =>
    LET map == data_column_map(filtered_raw_df, selected_family_session)
    IN  \A i, j \in 1..Len(map) :
          (map[i].uph_type = map[j].uph_type /\ map[i].uph_color = map[j].uph_color)
            => i = j

\* C24 as stated: every selection of the store has a row of its own family,
\* product, type and colour.
C24_SelectionsHaveOwnRows ==
  \A i \in 1..Len(matrix_selected_generic_items) :
    OwnRows(matrix_selected_generic_items[i]) # <<>>

\* C25 as stated: after a review item has been removed and the script has run
\* again, no item of the review list has the removed item's item number and
\* chosen base.
C25_RemovedPairIsGone ==
  last.op = "remove" =>
    \A i \in 1..Len(final_items_for_download) :
      Pair(final_items_for_download[i]) # Pair(last.combo)

\* C26 as stated: the item number and the article number stored with a
\* selection that needs no base choice are those of a row of its own family,
\* product, type and colour, and that row has the recorded single base when
\* one is recorded.
C26_DirectNumbersFromOwnRow ==
  \A i \in 1..Len(matrix_selected_generic_items) :
    LET s == matrix_selected_generic_items[i] IN
    ~s.requires_base_choice =>
      \E k \in 1..Len(OwnRows(s)) :
        LET r == OwnRows(s)[k] IN
        /\ r.item_no = s.item_no_if_single_base
        /\ r.article_no = s.article_no_if_single_base
        /\ s.resolved_base_if_single # NA => r.base = s.resolved_base_if_single

\* C27: a pass in which the currency changes from a selected currency to
\* another choice ends with no selection, no chosen bases, an empty review
\* list and no family selected; whenever no currency is selected, the store
\* and the review list are empty.
C27_CurrencyChangeResets ==
  /\ (last.op = "currency" /\ last.pre.currency # None) =>
       /\ selected_currency_session # last.pre.currency
       /\ matrix_selected_generic_items = <<>>
       /\ user_chosen_base_colors_for_items = EmptyDict
       /\ final_items_for_download = <<>>
       /\ selected_family_session = DEFAULT_NO_SELECTION
  /\ selected_currency_session = None =>
       /\ matrix_selected_generic_items = <<>>
       /\ user_chosen_base_colors_for_items = EmptyDict
       /\ final_items_for_download = <<>>

\* a switch to another currency that has the family selected before it
C27_Witness ==
  /\ last.op = "currency"
  /\ last.pre.currency # None
  /\ selected_currency_session # None
  /\ last.pre.gen # <<>>
  /\ last.pre.chosen # EmptyDict
  /\ last.pre.final # <<>>
  /\ last.pre.family \in Range(available_families(filtered_raw_df))

\* C28: every key of user_chosen_base_colors_for_items is a key of
\* matrix_selected_generic_items.
C28_NoOrphanEntry ==
  \A k \in DOMAIN user_chosen_base_colors_for_items :
    \E i \in 1..Len(matrix_selected_generic_items) :
      matrix_selected_generic_items[i].key = k

\* a selection with chosen bases has just gone, another entry is left
C28_Witness ==
  /\ last.op \in {"toggleCell", "toggleColumn", "remove"}
  /\ \E k \in DOMAIN last.pre.chosen :
       /\ last.pre.chosen[k] # <<>>
       /\ k \notin Keys(matrix_selected_generic_items)
  /\ user_chosen_base_colors_for_items # EmptyDict

\* C29 as stated: the chosen bases of a selection are among its available
\* bases and none of them occurs twice.
C29_ChosenAmongAvailable ==
  \A i \in 1..Len(matrix_selected_generic_items) :
    LET s  == matrix_selected_generic_items[i]
        cb == ChosenGet(user_chosen_base_colors_for_items, s.key)
    IN  /\ \A n \in 1..Len(cb) : cb[n] \in Range(s.available_bases)
        /\ \A n, m \in 1..Len(cb) : cb[n] = cb[m] => n = m

\* C30: a checkbox of the matrix that turns checked never takes the not-found
\* path: the callback stores the selection of that cell under the key by which
\* the matrix shows the cell as selected.
C30_PresentCellIsSelected ==
  (last.op = "toggleCell" /\ last.checked) =>
    LET k == matrix_item_key(last.pre.family, last.prod, last.uph_type, last.uph_color)
    IN  /\ last.toast # "not_found"
        /\ k \in Keys(matrix_selected_generic_items)
        /\ CellOf(Get(matrix_selected_generic_items, k))
             = <<last.pre.family, last.prod, last.uph_type, last.uph_color>>
        /\ \E r \in Range(filtered_raw_df) :
             /\ r.family = last.pre.family
             /\ r.product = last.prod
             /\ r.uph_type = last.uph_type
             /\ r.uph_color = last.uph_color

\* a cell whose product name has a blank has just been selected
C30_Witness ==
  /\ last.op = "toggleCell"
  /\ last.checked
  /\ matrix_item_key(last.pre.family, last.prod, last.uph_type, last.uph_color)
       \notin Keys(last.pre.gen)
  /\ \E n \in 1..Len(last.prod) : last.prod[n] = " "
  /\ Len(matrix_selected_generic_items) = Len(last.pre.gen) + 1

====
